---------------------------- MODULE Spec2Model ----------------------------
(***************************************************************************)
(* Model of the kiosk attendance client (Qt/src): the file-backed cache    *)
(* (CacheManager), the camera controller (CameraManager), the recognition  *)
(* client (FaceRecognitionService) and the bridge that wires them          *)
(* (QmlBridge).                                                            *)
(*                                                                         *)
(* All handlers run on the single GUI thread, so one handler is one        *)
(* action.  The one exception is saveToFile: a crash can hit between its   *)
(* open(WriteOnly), which truncates the file, and its write/close, so the  *)
(* mutating cache calls are split at that point; between the two halves    *)
(* nothing but the second half or a crash can happen.                      *)
(***************************************************************************)
EXTENDS Naturals, Sequences, FiniteSets, TLC

\* ------------------------------------------------------------------ bounds
\* Number of cacheLog calls (readings of the clock that stamps cached_at).
MaxEvents == 3
\* Number of recognition attempts triggered (captureAndRecognize,
\* captureAndRecognizeFromQML, recognizeFace); likewise of probes,
\* registrations and roster fetches sent.
MaxTriggers == 2
\* Number of device captures issued by captureImage.
MaxCaptures == 2
\* Number of not-ready polls one captureAndRecognize request is followed for.
MaxPolls == 3
\* Length of the user lists handed to cacheUsers.
MaxUsers == 2
\* Number of events added to the recognition history.
MaxAdded == 52

\* ------------------------------------------------------- program constants
\* QTimer::singleShot delays, in seconds.
CaptureTimeout == 5
StartDelay == 3
PollDelay == 1
GrabDelay == 1
\* Capacity of the recognition history.
HistoryCap == 50

\* ------------------------------------------------------------ vocabularies
\* Values of the "id" key of a log map; NoId is a map without the key.
NoId == "<none>"
Ids == {"a", "b"}
IdsOrNone == Ids \cup {NoId}

\* The maps QML may pass to cacheLog: an optional id, the attempt's outcome,
\* and possibly a "synced" key of its own.
LogInputs == [id : IdsOrNone, success : BOOLEAN, synced : BOOLEAN]

\* Contents of a cache file: no file, a file that was opened for writing and
\* holds nothing or a prefix of a document, or a complete JSON document.
NoFile == [kind |-> "absent"]
Truncated == [kind |-> "truncated"]
NoBuf == [op |-> "none"]
NoCall == [op |-> "none"]
Restarted == [op |-> "restart"]

VARIABLES
    logsFile,   \* logs_cache.json on disk
    usersFile,  \* users_cache.json on disk
    cachePc,    \* "idle", or "opened": inside saveToFile after open()
    cacheBuf,   \* the call that is inside saveToFile, and what it writes
    now,        \* the clock read for cached_at
    acked,      \* cached_at of the events whose cacheLog returned after writing
                \* and that were not marked synced since
    lastCall,   \* what the last completed cache call gave its caller
    \* CameraManager
    m_cameraAvailable,    \* a camera was present at construction
    m_cameraRunning,
    m_imageCapture,       \* Null or the QImageCapture object
    m_captureInProgress,
    m_lastCapturedImage,  \* NoImage or the id of the capture that produced it
    camTimers,            \* armed capture timeouts: [cap, left]
    nextCap,              \* ids the device gave out so far
    camCall,              \* what the last startCamera() returned and emitted
    \* the camera device (QCamera / QImageCapture), outside the repository
    devActive,            \* QCamera::isActive()
    devReady,             \* QImageCapture::isReadyForCapture()
    devPending,           \* captures issued and not yet answered
    \* QmlBridge
    br_cameraAvailable,   \* QmlBridge::m_cameraAvailable
    brTimers,             \* armed single-shot closures: [kind, req, polls, left],
                          \* and for "grab" the capture its attempt issued
    nextReq,              \* recognition attempts triggered so far
    m_recognitionHistory, \* the events shown as history, newest first
    nAdded,               \* events added to the history so far
    m_users,              \* QmlBridge::m_users, the list behind the users property
    settings,             \* the QSettings store (outlives the process)
    brCall,               \* the last bridge call and the collaborators it used
    \* FaceRecognitionService (settings)
    m_serverUrl,
    m_deviceId,
    \* FaceRecognitionService
    netPending,           \* recognize requests posted and not yet finished
    sigLog                \* faceRecognized / faceRecognitionFailed as emitted

cacheVars == <<logsFile, usersFile, cachePc, cacheBuf, now, acked, lastCall>>
camObjs == <<m_cameraAvailable, m_cameraRunning, m_imageCapture, m_captureInProgress,
            m_lastCapturedImage, camTimers, nextCap>>
camVars == <<camObjs, camCall>>
devVars == <<devActive, devReady, devPending>>
histVars == <<m_recognitionHistory, nAdded>>
viewVars == <<m_users, settings, brCall, m_serverUrl, m_deviceId>>
bridgeVars == <<br_cameraAvailable, brTimers, nextReq, histVars, viewVars>>
netVars == <<netPending, sigLog>>
pipeVars == <<camVars, devVars, bridgeVars, netVars>>
vars == <<cacheVars, pipeVars>>

\* ------------------------------------------------------------ CacheManager
\* QJsonDocument::fromVariant(data).toJson(): a complete document.
ToJson(data) == [kind |-> "json", doc |-> data]

\* QJsonDocument::fromJson(bytes).toVariant(): a null document, hence an
\* invalid QVariant, for anything but a complete document.
FromJson(file) == IF file.kind = "json" THEN [valid |-> TRUE, value |-> file.doc]
                  ELSE [valid |-> FALSE]

\* loadFromFile: an invalid QVariant when the file does not exist or cannot
\* be opened, else whatever the parse gives.
loadFromFile(file, openOk) ==
    IF file.kind = "absent" THEN [valid |-> FALSE]
    ELSE IF ~openOk THEN [valid |-> FALSE]
    ELSE FromJson(file)

\* QVariant::toList(): the empty list for an invalid variant.
toList(v) == IF v.valid THEN v.value ELSE <<>>

getCachedLogs(file, openOk) == toList(loadFromFile(file, openOk))

\* log["id"].toString(): the empty string when the key is absent.
idString(log) == IF log.id = NoId THEN "" ELSE log.id

IsUnsynced(log) == ~log.synced

getUnsyncedLogsAll(file, openOk) == getCachedLogs(file, openOk)

getUnsyncedLogs(file, openOk) == SelectSeq(getCachedLogs(file, openOk), IsUnsynced)

hasUnsyncedLogs(file, openOk) == getUnsyncedLogs(file, openOk) # <<>>
getUnsyncedLogsCount(file, openOk) == Len(getUnsyncedLogs(file, openOk))

\* cacheLog's list: the log with synced=false and cached_at=t, appended.
AppendLogResetAll(logs, e, t) ==
    Append([i \in 1..Len(logs) |-> [logs[i] EXCEPT !.synced = FALSE]],
           [id |-> e.id, success |-> e.success, synced |-> FALSE, cached_at |-> t])

AppendLog(logs, e, t) ==
    Append(logs, [id |-> e.id, success |-> e.success, synced |-> FALSE, cached_at |-> t])

\* Index of the first log whose id string equals logId, 0 when there is none.
FirstMatch(logs, logId) ==
    IF \E i \in 1..Len(logs) : idString(logs[i]) = logId
    THEN CHOOSE i \in 1..Len(logs) :
            /\ idString(logs[i]) = logId
            /\ \A j \in 1..(i-1) : idString(logs[j]) # logId
    ELSE 0

\* markLogSynced's list: the first match marked, then break.
MarkSynced(logs, logId) ==
    LET k == FirstMatch(logs, logId)
    IN  IF k = 0 THEN logs ELSE [logs EXCEPT ![k].synced = TRUE]

\* clearSyncedLogs's list.
KeepUnsynced(logs) == SelectSeq(logs, IsUnsynced)

Stamps(logs) == {logs[i].cached_at : i \in 1..Len(logs)}
SyncedStamps(logs) == {logs[i].cached_at : i \in {j \in 1..Len(logs) : logs[j].synced}}

\* The file a call saves to: m_usersCacheFile for cacheUsers, m_logsCacheFile
\* for the log calls.
WritesUsersNever(op) == FALSE

WritesUsers(op) == op = "cacheUsers"

\* The first half of saveToFile(filePath, data) for the call `op` (stamp
\* tells its caller's argument: cached_at for cacheLog, the id for
\* markLogSynced, the list for cacheUsers):
\* open(WriteOnly) fails and the call returns without writing, or it
\* succeeds and leaves the file truncated.
saveToFile_open(op, data, stamp, wrOk) ==
    IF wrOk
    THEN /\ IF WritesUsers(op)
            THEN usersFile' = Truncated /\ UNCHANGED logsFile
            ELSE logsFile' = Truncated /\ UNCHANGED usersFile
         /\ cachePc' = "opened"
         /\ cacheBuf' = [op |-> op, data |-> data, stamp |-> stamp,
                         prev |-> IF WritesUsers(op) THEN usersFile ELSE logsFile]
         /\ UNCHANGED <<acked, lastCall>>
    ELSE /\ lastCall' = [op |-> op, stamp |-> stamp, saved |-> FALSE, emitted |-> {}]
         /\ UNCHANGED <<logsFile, usersFile, cachePc, cacheBuf, acked>>

\* The second half: write, close, return true; the caller emits
\* unsyncedLogsChanged and returns.
saveToFile_write ==
    /\ cachePc = "opened"
    /\ IF WritesUsers(cacheBuf.op)
       THEN usersFile' = ToJson(cacheBuf.data) /\ UNCHANGED logsFile
       ELSE logsFile' = ToJson(cacheBuf.data) /\ UNCHANGED usersFile
    /\ cachePc' = "idle"
    /\ cacheBuf' = NoBuf
    /\ acked' = IF WritesUsers(cacheBuf.op) THEN acked
                ELSE (IF cacheBuf.op = "cacheLog" THEN acked \cup {cacheBuf.stamp}
                      ELSE acked) \ SyncedStamps(cacheBuf.data)
    /\ lastCall' = [op |-> cacheBuf.op, stamp |-> cacheBuf.stamp, saved |-> TRUE,
                    emitted |-> IF WritesUsers(cacheBuf.op) THEN {"cacheUpdated"}
                                ELSE {"unsyncedLogsChanged"}]
    /\ UNCHANGED now

\* cacheLog runs from its read to the return of saveToFile within one
\* handler of the GUI thread: it starts only when no other call is inside.
cacheLogReentrant(e, rdOk, wrOk) ==
    /\ now' = now + 1
    /\ saveToFile_open("cacheLog", AppendLog(getCachedLogs(logsFile, rdOk), e, now'),
                       now', wrOk)

cacheLog(e, rdOk, wrOk) ==
    /\ cachePc = "idle"
    /\ now' = now + 1
    /\ saveToFile_open("cacheLog", AppendLog(getCachedLogs(logsFile, rdOk), e, now'),
                       now', wrOk)

markLogSynced(logId, rdOk, wrOk) ==
    /\ cachePc = "idle"
    /\ saveToFile_open("markLogSynced", MarkSynced(getCachedLogs(logsFile, rdOk), logId),
                       logId, wrOk)
    /\ UNCHANGED now

clearSyncedLogs(rdOk, wrOk) ==
    /\ cachePc = "idle"
    /\ saveToFile_open("clearSyncedLogs", KeepUnsynced(getCachedLogs(logsFile, rdOk)),
                       0, wrOk)
    /\ UNCHANGED now

\* The process dies (and is started again): what is on disk stays as it is,
\* a call inside saveToFile never finishes.
Crash ==
    /\ cachePc' = "idle"
    /\ cacheBuf' = NoBuf
    /\ lastCall' = Restarted
    /\ UNCHANGED <<logsFile, usersFile, now, acked>>

\* The read-only calls on the log cache: each reads the file once and
\* returns; `opened` tells whether its QFile::open succeeded.
QueryOps == {"getUnsyncedLogs", "hasUnsyncedLogs", "getUnsyncedLogsCount"}
Answer(op, result, rdOk) ==
    /\ cachePc = "idle"
    /\ lastCall' = [op |-> op, result |-> result, opened |-> rdOk]
    /\ UNCHANGED <<logsFile, usersFile, cachePc, cacheBuf, now, acked>>

getUnsyncedLogs_call(rdOk) ==
    Answer("getUnsyncedLogs", getUnsyncedLogs(logsFile, rdOk), rdOk)
hasUnsyncedLogs_call(rdOk) ==
    Answer("hasUnsyncedLogs", hasUnsyncedLogs(logsFile, rdOk), rdOk)
getUnsyncedLogsCount_call(rdOk) ==
    Answer("getUnsyncedLogsCount", getUnsyncedLogsCount(logsFile, rdOk), rdOk)

\* QmlBridge::syncCachedLogs: the body is a debug line; it resubmits
\* nothing, touches no file and returns void.
Void == [kind |-> "void"]
syncCachedLogs ==
    /\ cachePc = "idle"
    /\ lastCall' = [op |-> "syncCachedLogs", result |-> Void, attempted |-> 0]
    /\ UNCHANGED <<logsFile, usersFile, cachePc, cacheBuf, now, acked>>

\* The user lists the server's roster can hold.
RosterIds == {"u1", "u2"}
UserRecords == [id : RosterIds]
Rosters == UNION {[1..n -> UserRecords] : n \in 0..MaxUsers}

\* getCachedUsers: loadFromFile(...).toMap()["users"].toList()
getCachedUsers(file, openOk) ==
    LET v == loadFromFile(file, openOk)
    IN  IF v.valid THEN v.value.users ELSE <<>>

\* cacheUsers: a map of the clock's reading and the list is saved over the
\* users file.
cacheUsers(users, wrOk) ==
    /\ cachePc = "idle"
    /\ saveToFile_open("cacheUsers", [timestamp |-> now, users |-> users], users, wrOk)
    /\ UNCHANGED now

\* clearUserCache: the users file is removed and cacheUpdated emitted.
clearUserCache ==
    /\ cachePc = "idle"
    /\ usersFile' = NoFile
    /\ lastCall' = [op |-> "clearUserCache", stamp |-> 0, saved |-> TRUE,
                    emitted |-> {"cacheUpdated"}]
    /\ UNCHANGED <<logsFile, cachePc, cacheBuf, now, acked>>

\* clearAllCache: clearUserCache(), then the logs file is removed and both
\* notifications are emitted.
clearAllCache ==
    /\ cachePc = "idle"
    /\ usersFile' = NoFile
    /\ logsFile' = NoFile
    /\ lastCall' = [op |-> "clearAllCache", stamp |-> 0, saved |-> TRUE,
                    emitted |-> {"cacheUpdated", "unsyncedLogsChanged"}]
    /\ UNCHANGED <<cachePc, cacheBuf, now, acked>>

\* ----------------------------------------------------------- CameraManager
Null == "null"
ImageCaptureObj == "QImageCapture"
NoImage == 0

\* What startCamera gave its caller: the returned bool and the signals
\* emitted on the way.
Started(ret, emitted) == [op |-> "startCamera", ret |-> ret, emitted |-> emitted]

\* startCamera: `present` is what QMediaDevices::videoInputs() finds now.
\* Gives the returned bool in `ret`.
startCameraRestart(present, ret) ==
    IF ~m_cameraAvailable THEN
        /\ ret = FALSE
        /\ camCall' = Started(FALSE, {"cameraError"})
        /\ UNCHANGED <<camObjs, devVars>>
    ELSE IF ~present THEN
        /\ ret = FALSE
        /\ camCall' = Started(FALSE, {"cameraError"})
        /\ UNCHANGED <<camObjs, devVars>>
    ELSE
        /\ ret = TRUE
        /\ camCall' = Started(TRUE, {"cameraStarted"})
        /\ m_imageCapture' = ImageCaptureObj
        /\ m_cameraRunning' = TRUE
        /\ devPending' = {}
        /\ UNCHANGED <<m_cameraAvailable, m_captureInProgress, m_lastCapturedImage,
                       camTimers, nextCap, devActive, devReady>>

startCamera(present, ret) ==
    IF ~m_cameraAvailable THEN
        /\ ret = FALSE
        /\ camCall' = Started(FALSE, {"cameraError"})
        /\ UNCHANGED <<camObjs, devVars>>
    ELSE IF m_cameraRunning THEN
        /\ ret = TRUE
        /\ camCall' = Started(TRUE, {})
        /\ UNCHANGED <<camObjs, devVars>>
    ELSE IF ~present THEN
        /\ ret = FALSE
        /\ camCall' = Started(FALSE, {"cameraError"})
        /\ UNCHANGED <<camObjs, devVars>>
    ELSE
        /\ ret = TRUE
        /\ camCall' = Started(TRUE, {"cameraStarted"})
        /\ m_imageCapture' = ImageCaptureObj
        /\ m_cameraRunning' = TRUE
        /\ devPending' = {}
        /\ UNCHANGED <<m_cameraAvailable, m_captureInProgress, m_lastCapturedImage,
                       camTimers, nextCap, devActive, devReady>>

\* stopCamera: deletes the camera objects, and with them the captures the
\* device still owes; m_captureInProgress, m_lastCapturedImage and the armed
\* timeouts are not touched.
stopCamera ==
    IF ~m_cameraRunning THEN
        UNCHANGED <<camVars, devVars>>
    ELSE
        /\ m_imageCapture' = Null
        /\ m_cameraRunning' = FALSE
        /\ devPending' = {}
        /\ devActive' = FALSE
        /\ devReady' = FALSE
        /\ UNCHANGED <<m_cameraAvailable, m_captureInProgress, m_lastCapturedImage,
                       camTimers, nextCap, camCall>>

\* isImageCaptureReady
isImageCaptureReady == m_imageCapture # Null /\ devReady

\* The branch captureImage takes; capOk: QImageCapture::capture() gave an id
\* other than -1.
captureBranch(capOk) ==
    IF ~m_cameraRunning \/ m_imageCapture = Null THEN "notRunning"
    ELSE IF m_captureInProgress THEN "inProgress"
    ELSE IF ~devActive THEN "notActive"
    ELSE IF ~devReady THEN "notReady"
    ELSE IF m_lastCapturedImage # NoImage THEN "previous"
    ELSE IF ~capOk THEN "captureFailed"
    ELSE "issued"

\* What captureImage returns: the previously captured image or nothing.
captureResultEager(branch) ==
    IF branch = "previous" THEN m_lastCapturedImage
    ELSE IF branch = "issued" THEN nextCap + 1 ELSE NoImage

captureResult(branch) == IF branch = "previous" THEN m_lastCapturedImage ELSE NoImage

\* The capture this captureImage() call issues (NoImage: none).
Issued(branch) == IF branch = "issued" THEN nextCap + 1 ELSE NoImage

\* What captureImage changes: a capture is issued, marked in progress and
\* its 5 s timeout armed; every other branch changes nothing.
captureEffect(branch) ==
    IF branch = "issued" THEN
        /\ nextCap < MaxCaptures
        /\ nextCap' = nextCap + 1
        /\ m_captureInProgress' = TRUE
        /\ m_lastCapturedImage' = NoImage
        /\ devPending' = devPending \cup {nextCap'}
        /\ camTimers' = camTimers \cup {[cap |-> nextCap', left |-> CaptureTimeout]}
        /\ UNCHANGED <<m_cameraAvailable, m_cameraRunning, m_imageCapture,
                       devActive, devReady, camCall>>
    ELSE UNCHANGED <<camVars, devVars>>

\* The device delivers the image of capture c.
onImageCaptured(c) ==
    /\ cachePc = "idle"
    /\ c \in devPending
    /\ devPending' = devPending \ {c}
    /\ m_lastCapturedImage' = c
    /\ m_captureInProgress' = FALSE
    /\ UNCHANGED <<m_cameraAvailable, m_cameraRunning, m_imageCapture, camTimers,
                   nextCap, camCall, devActive, devReady>>
    /\ UNCHANGED <<cacheVars, bridgeVars, netVars>>

\* The device reports that capture c failed (cameraError is emitted).
onImageCaptureError(c) ==
    /\ cachePc = "idle"
    /\ c \in devPending
    /\ devPending' = devPending \ {c}
    /\ m_captureInProgress' = FALSE
    /\ UNCHANGED <<m_cameraAvailable, m_cameraRunning, m_imageCapture,
                   m_lastCapturedImage, camTimers, nextCap, camCall, devActive, devReady>>
    /\ UNCHANGED <<cacheVars, bridgeVars, netVars>>

\* The single-shot armed by captureImage fires: whatever capture is in
\* progress by now is declared timed out.
captureTimeout(t) ==
    /\ cachePc = "idle"
    /\ t \in camTimers
    /\ t.left = 0
    /\ camTimers' = camTimers \ {t}
    /\ m_captureInProgress' = FALSE
    /\ UNCHANGED <<m_cameraAvailable, m_cameraRunning, m_imageCapture,
                   m_lastCapturedImage, nextCap, camCall>>
    /\ UNCHANGED <<cacheVars, devVars, bridgeVars, netVars>>

\* The hardware warms up, becomes busy or goes away: readiness and activity
\* are the device's, not the program's.
DeviceChange(active, ready) ==
    /\ cachePc = "idle"
    /\ m_cameraRunning
    /\ <<active, ready>> # <<devActive, devReady>>
    /\ devActive' = active
    /\ devReady' = ready
    /\ UNCHANGED devPending
    /\ UNCHANGED <<cacheVars, camVars, bridgeVars, netVars>>

\* One second passes; a timer that is due fires before time moves on.
Tick ==
    /\ cachePc = "idle"
    /\ camTimers \cup brTimers # {}
    /\ \A t \in camTimers \cup brTimers : t.left > 0
    /\ camTimers' = {[t EXCEPT !.left = t.left - 1] : t \in camTimers}
    /\ brTimers' = {[t EXCEPT !.left = t.left - 1] : t \in brTimers}
    /\ UNCHANGED <<m_cameraAvailable, m_cameraRunning, m_imageCapture,
                   m_captureInProgress, m_lastCapturedImage, nextCap, camCall>>
    /\ UNCHANGED <<br_cameraAvailable, nextReq, histVars, viewVars>>
    /\ UNCHANGED <<cacheVars, devVars, netVars>>

\* -------------------------------------------------- FaceRecognitionService
\* Image bytes handed to the service: none, bytes QImage cannot load, a
\* loadable image.  What the camera delivers is a JPEG QImage::save wrote.
ImageKinds == {"empty", "invalid", "valid"}

\* What a finished QNetworkReply can hold: a transport error, an HTTP error
\* status (both give error() # NoError), or a 2xx body that is not JSON or
\* is a JSON object with these keys ("" stands for a missing key).
UserIds == {"", "u1"}
UserNames == {"", "Alice"}
\* The "distance" and "threshold" numbers of a reply, in tenths.
Distances == {3, 7}
Thresholds == {5}
Responses ==
    {[kind |-> "transport"], [kind |-> "http"], [kind |-> "malformed"]}
    \cup [kind : {"json"}, matched : BOOLEAN, user_id : UserIds, name : UserNames,
          distance : Distances, threshold : Thresholds]

\* One reply of each result class, for runs that do not turn on the reply's
\* content.
SomeResponses ==
    {[kind |-> "transport"], [kind |-> "malformed"],
     [kind |-> "json", matched |-> FALSE, user_id |-> "", name |-> "",
      distance |-> 7, threshold |-> 5],
     [kind |-> "json", matched |-> TRUE, user_id |-> "u1", name |-> "Alice",
      distance |-> 3, threshold |-> 5]}

\* reply->error() == QNetworkReply::NoError
NoError(resp) == resp.kind \in {"malformed", "json"}

\* parseRecognizeResponse: for a null document only success and error are
\* set, so result["matched"].toBool() is false and the strings are empty.
parseRecognizeResponse(resp) ==
    IF resp.kind = "json"
    THEN [success |-> TRUE, matched |-> resp.matched, user_id |-> resp.user_id,
          name |-> resp.name, distance |-> resp.distance, threshold |-> resp.threshold]
    ELSE [success |-> FALSE, matched |-> FALSE, user_id |-> "", name |-> "",
          distance |-> 0, threshold |-> 0]

\* The result class of spec section 4.2 a reply falls in.
ReplyClass(resp) ==
    IF resp.kind = "transport" THEN "NetworkUnavailable"
    ELSE IF resp.kind \in {"http", "malformed"} THEN "ProtocolError"
    ELSE IF resp.matched THEN "Matched" ELSE "NotMatched"

Recognized(req, userId, userName, cause) ==
    [sig |-> "faceRecognized", userId |-> userId, userName |-> userName,
     req |-> req, cause |-> cause]
Failed(req, cause) ==
    [sig |-> "faceRecognitionFailed", userId |-> "", userName |-> "",
     req |-> req, cause |-> cause]

\* The attendance event the login screen records for an outcome signal
\* (Login.qml, through QmlBridge::cacheLog).
HandlerLog(s) ==
    [id |-> ToString(s.req), success |-> (s.sig = "faceRecognized"), synced |-> FALSE]

\* A signal leaves QmlBridge (its own emit, or the service's signal that the
\* constructor forwards); the connected handler records the attempt.
Emit(s, rdOk, wrOk) ==
    /\ sigLog' = Append(sigLog, s)
    /\ cacheLog(HandlerLog(s), rdOk, wrOk)

\* recognizeFaceWithServer returns success=true exactly when it posted.
Posted(img) == img = "valid"

\* onRecognizeReplyFinished for the reply of request r.
onRecognizeReplyFinished(r, resp, rdOk, wrOk) ==
    /\ cachePc = "idle"
    /\ r \in netPending
    /\ netPending' = netPending \ {r}
    /\ IF NoError(resp) THEN
            LET result == parseRecognizeResponse(resp)
            IN  IF result.matched
                THEN Emit(Recognized(r.req, result.user_id, result.name, ReplyClass(resp)),
                          rdOk, wrOk)
                ELSE Emit(Failed(r.req, ReplyClass(resp)), rdOk, wrOk)
       ELSE Emit(Failed(r.req, ReplyClass(resp)), rdOk, wrOk)
    /\ UNCHANGED <<camVars, devVars, bridgeVars>>

\* What the finished reply of a health probe or of a registration can hold:
\* a transport error, an HTTP error status, a 2xx body that is not a JSON
\* document, or a JSON object with this "user_id" ("" stands for a missing
\* key).
ServerUserIds == {"", "u1", "7"}
ServiceReplies ==
    {[kind |-> "transport"], [kind |-> "http"], [kind |-> "malformed"]}
    \cup [kind : {"json"}, user_id : ServerUserIds]

\* QJsonDocument::fromJson(responseData).isNull()
DocIsNull(resp) == resp.kind # "json"

\* serverConnectionTested(success, message) for probe req; `cause` keeps the
\* kind of reply it reports.
ConnectionTested(req, success, cause) ==
    [sig |-> "serverConnectionTested", success |-> success, req |-> req, cause |-> cause]

\* testServerConnection: the GET is sent and the call returns true; nothing
\* waits for the reply.
testServerConnection ==
    /\ cachePc = "idle"
    /\ nextReq < MaxTriggers
    /\ nextReq' = nextReq + 1
    /\ netPending' = netPending \cup {[req |-> nextReq', via |-> "testServerConnection"]}
    /\ UNCHANGED <<cacheVars, camVars, devVars, br_cameraAvailable, brTimers, histVars, viewVars, sigLog>>

\* onConnectionTestReplyFinished for the reply of probe r.
onConnectionTestReplyFinishedLax(r, resp) ==
    /\ cachePc = "idle"
    /\ r \in netPending
    /\ r.via = "testServerConnection"
    /\ netPending' = netPending \ {r}
    /\ sigLog' = Append(sigLog, ConnectionTested(r.req, NoError(resp), resp.kind))
    /\ UNCHANGED <<cacheVars, camVars, devVars, bridgeVars>>

onConnectionTestReplyFinished(r, resp) ==
    /\ cachePc = "idle"
    /\ r \in netPending
    /\ r.via = "testServerConnection"
    /\ netPending' = netPending \ {r}
    /\ sigLog' = Append(sigLog,
            IF NoError(resp)
            THEN IF ~DocIsNull(resp)
                 THEN ConnectionTested(r.req, TRUE, resp.kind)
                 ELSE ConnectionTested(r.req, FALSE, resp.kind)
            ELSE ConnectionTested(r.req, FALSE, resp.kind))
    /\ UNCHANGED <<cacheVars, camVars, devVars, bridgeVars>>

\* QString::toInt(): 0 for a string that is not a number.
toInt(str) == IF str = "7" THEN 7 ELSE 0

\* The result class a registration reply falls in: a body that is no JSON
\* document or carries no user_id is an invalid response.
RegisterClass(resp) ==
    IF resp.kind = "transport" THEN "NetworkUnavailable"
    ELSE IF resp.kind = "http" THEN "ProtocolError"
    ELSE IF resp.kind = "malformed" THEN "InvalidResponse"
    ELSE IF resp.user_id = "" THEN "InvalidResponse" ELSE "Registered"

RegistrationSuccess(req, userId, cause) ==
    [sig |-> "faceRegistrationSuccess", userId |-> userId, req |-> req, cause |-> cause]
RegistrationFailed(req, cause) ==
    [sig |-> "faceRegistrationFailed", req |-> req, cause |-> cause]

\* registerFaceWithServer: false and nothing sent for an empty image, an
\* empty name or bytes QImage cannot load; else the POST is sent and the
\* call returns true.
Names == {"", "Alice"}
registerFaceWithServer(img, name) ==
    /\ cachePc = "idle"
    /\ nextReq < MaxTriggers
    /\ IF img = "empty" \/ name = "" \/ img = "invalid"
       THEN UNCHANGED <<nextReq, netPending>>
       ELSE /\ nextReq' = nextReq + 1
            /\ netPending' = netPending \cup
                    {[req |-> nextReq', via |-> "registerFaceWithServer"]}
    /\ UNCHANGED <<cacheVars, camVars, devVars, br_cameraAvailable, brTimers, histVars, viewVars, sigLog>>

\* onRegisterReplyFinished for the reply of registration r.
onRegisterReplyFinished(r, resp) ==
    /\ cachePc = "idle"
    /\ r \in netPending
    /\ r.via = "registerFaceWithServer"
    /\ netPending' = netPending \ {r}
    /\ sigLog' = Append(sigLog,
            IF NoError(resp)
            THEN IF ~DocIsNull(resp)
                 THEN RegistrationSuccess(r.req, toInt(resp.user_id), RegisterClass(resp))
                 ELSE RegistrationFailed(r.req, RegisterClass(resp))
            ELSE RegistrationFailed(r.req, RegisterClass(resp)))
    /\ UNCHANGED <<cacheVars, camVars, devVars, bridgeVars>>

\* ---------------------------------------------------------------- QmlBridge
\* processRecognition: post the request, or report failure when the service
\* did not post it.
processRecognitionSilent(img, req, rdOk, wrOk) ==
    IF Posted(img)
    THEN /\ netPending' = netPending \cup {[req |-> req, via |-> "processRecognition"]}
         /\ UNCHANGED <<cacheVars, sigLog>>
    ELSE UNCHANGED <<cacheVars, netVars>>

processRecognition(img, req, rdOk, wrOk) ==
    IF Posted(img)
    THEN /\ netPending' = netPending \cup {[req |-> req, via |-> "processRecognition"]}
         /\ UNCHANGED <<cacheVars, sigLog>>
    ELSE /\ Emit(Failed(req, "notPosted"), rdOk, wrOk)
         /\ UNCHANGED netPending

\* The code keeps no count of its polls; the model counts them up to
\* MaxPolls and goes on polling.
CountPoll(polls) == IF polls < MaxPolls THEN polls + 1 ELSE polls

\* captureAndRecognize for request req, which polled `polls` times so far;
\* `rest` are the closures that stay armed.
captureAndRecognizeBody(req, polls, rest, present, capOk, rdOk, wrOk) ==
    IF ~m_cameraAvailable THEN
        /\ Emit(Failed(req, "noCamera"), rdOk, wrOk)
        /\ brTimers' = rest
        /\ UNCHANGED <<camVars, devVars, netPending>>
    ELSE IF ~m_cameraRunning THEN
        \E ret \in BOOLEAN :
            /\ startCamera(present, ret)
            /\ IF ret
               THEN /\ brTimers' = rest \cup {[kind |-> "recall", req |-> req,
                                               polls |-> polls, left |-> StartDelay]}
                    /\ UNCHANGED <<cacheVars, netVars>>
               ELSE /\ Emit(Failed(req, "startFailed"), rdOk, wrOk)
                    /\ brTimers' = rest
                    /\ UNCHANGED netPending
    ELSE IF ~isImageCaptureReady THEN
        /\ brTimers' = rest \cup {[kind |-> "recall", req |-> req,
                                   polls |-> CountPoll(polls), left |-> PollDelay]}
        /\ UNCHANGED <<cacheVars, camVars, devVars, netVars>>
    ELSE
        LET branch == captureBranch(capOk)
        IN  /\ captureEffect(branch)
            /\ IF captureResult(branch) = NoImage
               THEN /\ brTimers' = rest \cup {[kind |-> "grab", req |-> req,
                                               polls |-> polls, left |-> GrabDelay,
                                               cap |-> Issued(branch)]}
                    /\ UNCHANGED <<cacheVars, netVars>>
               ELSE /\ processRecognition("valid", req, rdOk, wrOk)
                    /\ brTimers' = rest

\* captureAndRecognize, called from QML: a new attempt.
captureAndRecognize(present, capOk, rdOk, wrOk) ==
    /\ cachePc = "idle"
    /\ nextReq < MaxTriggers
    /\ nextReq' = nextReq + 1
    /\ captureAndRecognizeBody(nextReq', 0, brTimers, present, capOk, rdOk, wrOk)
    /\ UNCHANGED <<br_cameraAvailable, histVars, viewVars>>

\* A closure that calls captureAndRecognize() again fires.
recallTimer(t, present, capOk, rdOk, wrOk) ==
    /\ cachePc = "idle"
    /\ t \in brTimers
    /\ t.kind = "recall"
    /\ t.left = 0
    /\ captureAndRecognizeBody(t.req, t.polls, brTimers \ {t}, present, capOk, rdOk, wrOk)
    /\ UNCHANGED <<br_cameraAvailable, nextReq, histVars, viewVars>>

\* The closure armed after an empty captureImage() fires: captureImage()
\* once more, then recognition or failure.
grabTimer(t, capOk, rdOk, wrOk) ==
    /\ cachePc = "idle"
    /\ t \in brTimers
    /\ t.kind = "grab"
    /\ t.left = 0
    /\ brTimers' = brTimers \ {t}
    /\ LET branch == captureBranch(capOk)
       IN  /\ captureEffect(branch)
           /\ IF captureResult(branch) # NoImage
              THEN processRecognition("valid", t.req, rdOk, wrOk)
              ELSE /\ Emit(Failed(t.req, "noImage"), rdOk, wrOk)
                   /\ UNCHANGED netPending
    /\ UNCHANGED <<br_cameraAvailable, nextReq, histVars, viewVars>>

\* captureAndRecognizeFromQML: QML hands over a frame (a null QImage saves
\* to no bytes).
captureAndRecognizeFromQML(img, rdOk, wrOk) ==
    /\ cachePc = "idle"
    /\ nextReq < MaxTriggers
    /\ nextReq' = nextReq + 1
    /\ processRecognition(img, nextReq', rdOk, wrOk)
    /\ UNCHANGED <<camVars, devVars, br_cameraAvailable, brTimers, histVars, viewVars>>

\* QmlBridge::recognizeFace: the service's immediate result carries
\* success=true and status="processing" when the request was posted, and no
\* user_id / user_name key.
recognizeFace(img, rdOk, wrOk) ==
    /\ cachePc = "idle"
    /\ nextReq < MaxTriggers
    /\ nextReq' = nextReq + 1
    /\ IF Posted(img)
       THEN /\ netPending' = netPending \cup {[req |-> nextReq', via |-> "recognizeFace"]}
            /\ Emit(Recognized(nextReq', "", "", "accepted"), rdOk, wrOk)
       ELSE /\ Emit(Failed(nextReq', "notPosted"), rdOk, wrOk)
            /\ UNCHANGED netPending
    /\ UNCHANGED <<camVars, devVars, br_cameraAvailable, brTimers, histVars, viewVars>>

\* QmlBridge::startCamera: m_cameraAvailable is set on success and left as
\* it is on failure.
QmlBridge_startCameraAlways(present) ==
    /\ cachePc = "idle"
    /\ \E ret \in BOOLEAN :
        /\ startCamera(present, ret)
        /\ br_cameraAvailable' = TRUE
    /\ UNCHANGED <<brTimers, nextReq, histVars, viewVars>>
    /\ UNCHANGED <<cacheVars, netVars>>

QmlBridge_startCamera(present) ==
    /\ cachePc = "idle"
    /\ \E ret \in BOOLEAN :
        /\ startCamera(present, ret)
        /\ br_cameraAvailable' = (IF ret THEN TRUE ELSE br_cameraAvailable)
    /\ UNCHANGED <<brTimers, nextReq, histVars, viewVars>>
    /\ UNCHANGED <<cacheVars, netVars>>

QmlBridge_stopCamera ==
    /\ cachePc = "idle"
    /\ stopCamera
    /\ br_cameraAvailable' = FALSE
    /\ UNCHANGED <<brTimers, nextReq, histVars, viewVars>>
    /\ UNCHANGED <<cacheVars, netVars>>

\* addRecognitionEventWithImage: the event is put first and the list cut to
\* its first HistoryCap entries.  An event is told by its place in the order
\* of additions; its other keys (name, success, times, captured_image) take
\* no part in the trimming.
addRecognitionEventWithImageTail(userName, success, imageData) ==
    /\ cachePc = "idle"
    /\ nAdded < MaxAdded
    /\ nAdded' = nAdded + 1
    /\ LET event == [seq |-> nAdded']
           list == <<event>> \o m_recognitionHistory
       IN  m_recognitionHistory' =
               IF Len(list) > HistoryCap
               THEN SubSeq(list, Len(list) - HistoryCap + 1, Len(list)) ELSE list
    /\ UNCHANGED <<cacheVars, camVars, devVars, netVars>>
    /\ UNCHANGED <<br_cameraAvailable, brTimers, nextReq, viewVars>>

addRecognitionEventWithImage(userName, success, imageData) ==
    /\ cachePc = "idle"
    /\ nAdded < MaxAdded
    /\ nAdded' = nAdded + 1
    /\ LET event == [seq |-> nAdded']
           list == <<event>> \o m_recognitionHistory
       IN  m_recognitionHistory' =
               IF Len(list) > HistoryCap THEN SubSeq(list, 1, HistoryCap) ELSE list
    /\ UNCHANGED <<cacheVars, camVars, devVars, netVars>>
    /\ UNCHANGED <<br_cameraAvailable, brTimers, nextReq, viewVars>>

addRecognitionEvent(userName, success) ==
    addRecognitionEventWithImage(userName, success, "")

clearRecognitionHistory ==
    /\ cachePc = "idle"
    /\ m_recognitionHistory' = <<>>
    /\ UNCHANGED nAdded
    /\ UNCHANGED <<cacheVars, camVars, devVars, netVars>>
    /\ UNCHANGED <<br_cameraAvailable, brTimers, nextReq, viewVars>>

\* ------------------------------------------- roster view and settings
\* The collaborators QmlBridge's constructor creates; the database manager
\* ("databaseManager") and the user manager stay nullptr.
Constructed == {"cameraManager", "systemMonitor", "networkManager",
                "faceRecognitionService", "cacheManager"}

\* A bridge call and the collaborators it called into.
Called(op, uses) == [op |-> op, uses |-> uses]

\* The service's defaults, and the values the settings screen can set.
DefaultUrl == "http://localhost:8001"
HostName == "kiosk-host"
Urls == {DefaultUrl, "http://srv-a", "http://srv-b"}
DeviceIds == {HostName, "dev-1"}
NoSetting == "<unset>"
NoSettings == [server_url |-> NoSetting, device_id |-> NoSetting]

\* getSetting: QSettings::value(key, defaultValue)
getSetting(key, defaultValue) ==
    IF settings[key] = NoSetting THEN defaultValue ELSE settings[key]

getServerUrl == getSetting("server_url", m_serverUrl)
getDeviceId == getSetting("device_id", m_deviceId)

QmlBridge_setServerUrl(url) ==
    /\ cachePc = "idle"
    /\ m_serverUrl' = url
    /\ settings' = [settings EXCEPT !.server_url = url]
    /\ brCall' = Called("setServerUrl", {"faceRecognitionService"})
    /\ UNCHANGED <<m_users, m_deviceId>>
    /\ UNCHANGED <<cacheVars, camVars, devVars, netVars>>
    /\ UNCHANGED <<br_cameraAvailable, brTimers, nextReq, histVars>>

QmlBridge_setDeviceId(deviceId) ==
    /\ cachePc = "idle"
    /\ m_deviceId' = deviceId
    /\ settings' = [settings EXCEPT !.device_id = deviceId]
    /\ brCall' = Called("setDeviceId", {"faceRecognitionService"})
    /\ UNCHANGED <<m_users, m_serverUrl>>
    /\ UNCHANGED <<cacheVars, camVars, devVars, netVars>>
    /\ UNCHANGED <<br_cameraAvailable, brTimers, nextReq, histVars>>

\* loadUsersFromBackend: getUsersFromServer sends GET /users (the network
\* counts as available whenever the access manager exists) and returns.
loadUsersFromBackend ==
    /\ cachePc = "idle"
    /\ nextReq < MaxTriggers
    /\ nextReq' = nextReq + 1
    /\ netPending' = netPending \cup {[req |-> nextReq', via |-> "getUsersFromServer"]}
    /\ brCall' = Called("loadUsersFromBackend", {"faceRecognitionService"})
    /\ UNCHANGED <<m_users, settings, m_serverUrl, m_deviceId>>
    /\ UNCHANGED <<cacheVars, camVars, devVars, sigLog>>
    /\ UNCHANGED <<br_cameraAvailable, brTimers, histVars>>

\* What the finished reply of GET /users can hold: a transport error, an
\* HTTP error status, a 2xx body that is not a JSON document, or a JSON
\* object with a "users" array.
UsersReplies ==
    {[kind |-> "transport"], [kind |-> "http"], [kind |-> "malformed"]}
    \cup [kind : {"json"}, users : Rosters]

\* parseUsersResponse: the empty list for a null document, else one map per
\* entry of the "users" array.
parseUsersResponse(resp) ==
    IF DocIsNull(resp) THEN <<>>
    ELSE [i \in 1..Len(resp.users) |-> [id |-> resp.users[i].id]]

\* QmlBridge::onUsersUpdated, connected to the service's usersUpdated.
onUsersUpdated(users) == m_users' = users

\* onUsersReplyFinished: usersUpdated(parsed list) without an error,
\* usersUpdated(empty list) with one.
onUsersReplyFinished(r, resp) ==
    /\ cachePc = "idle"
    /\ r \in netPending
    /\ r.via = "getUsersFromServer"
    /\ netPending' = netPending \ {r}
    /\ IF NoError(resp) THEN onUsersUpdated(parseUsersResponse(resp))
       ELSE onUsersUpdated(<<>>)
    /\ UNCHANGED <<settings, brCall, m_serverUrl, m_deviceId>>
    /\ UNCHANGED <<cacheVars, camVars, devVars, sigLog>>
    /\ UNCHANGED <<br_cameraAvailable, brTimers, nextReq, histVars>>

\* The process ends and is started again: the objects are constructed
\* anew, requests in flight are gone, the QSettings store stays.
Restart ==
    /\ cachePc = "idle"
    /\ m_users' = <<>>
    /\ m_serverUrl' = DefaultUrl
    /\ m_deviceId' = HostName
    /\ netPending' = {}
    /\ brCall' = Restarted
    /\ UNCHANGED <<settings, sigLog>>
    /\ UNCHANGED <<cacheVars, camVars, devVars>>
    /\ UNCHANGED <<br_cameraAvailable, brTimers, nextReq, histVars>>

\* refreshData: loadUsers() calls m_databaseManager->getAllUsers() through
\* the null pointer, which is undefined: the process dies there, or the call
\* runs without an object (getAllUsers reads no member) and its query on the
\* missing database gives no rows; loadHistoryLogs() likewise, then
\* updateSystemMetrics().
refreshData(dies) ==
    /\ cachePc = "idle"
    /\ IF dies
       THEN /\ m_users' = <<>>
            /\ m_serverUrl' = DefaultUrl
            /\ m_deviceId' = HostName
            /\ netPending' = {}
            /\ brCall' = Called("refreshData", {"databaseManager"})
       ELSE /\ m_users' = <<>>
            /\ brCall' = Called("refreshData", {"databaseManager", "systemMonitor"})
            /\ UNCHANGED <<m_serverUrl, m_deviceId, netPending>>
    /\ UNCHANGED <<settings, sigLog>>
    /\ UNCHANGED <<cacheVars, camVars, devVars>>
    /\ UNCHANGED <<br_cameraAvailable, brTimers, nextReq, histVars>>

QmlBridge_captureImage(capOk) ==
    /\ cachePc = "idle"
    /\ captureEffect(captureBranch(capOk))
    /\ UNCHANGED <<cacheVars, bridgeVars, netVars>>

PipeInit ==
    /\ m_cameraAvailable \in BOOLEAN
    /\ m_cameraRunning = FALSE
    /\ m_imageCapture = Null
    /\ m_captureInProgress = FALSE
    /\ m_lastCapturedImage = NoImage
    /\ camTimers = {}
    /\ nextCap = 0
    /\ camCall = NoCall
    /\ devActive = FALSE
    /\ devReady = FALSE
    /\ devPending = {}
    /\ br_cameraAvailable = FALSE
    /\ brTimers = {}
    /\ nextReq = 0
    /\ m_recognitionHistory = <<>>
    /\ nAdded = 0
    /\ m_users = <<>>
    /\ settings = NoSettings
    /\ brCall = NoCall
    /\ m_serverUrl = DefaultUrl
    /\ m_deviceId = HostName
    /\ netPending = {}
    /\ sigLog = <<>>

CacheInit ==
    /\ logsFile = NoFile
    /\ usersFile = NoFile
    /\ cachePc = "idle"
    /\ cacheBuf = NoBuf
    /\ now = 0
    /\ acked = {}
    /\ lastCall = NoCall

Init == CacheInit /\ PipeInit

CacheNext ==
    \/ /\ now < MaxEvents
       /\ \E e \in LogInputs, rdOk \in BOOLEAN, wrOk \in BOOLEAN : cacheLog(e, rdOk, wrOk)
       /\ UNCHANGED pipeVars
    \/ /\ \E logId \in Ids \cup {""}, rdOk \in BOOLEAN, wrOk \in BOOLEAN :
            markLogSynced(logId, rdOk, wrOk)
       /\ UNCHANGED pipeVars
    \/ /\ \E rdOk \in BOOLEAN, wrOk \in BOOLEAN : clearSyncedLogs(rdOk, wrOk)
       /\ UNCHANGED pipeVars
    \/ /\ saveToFile_write
       /\ UNCHANGED pipeVars
    \/ /\ Crash
       /\ UNCHANGED pipeVars

\* The capture pipeline: QML triggers captureAndRecognize and drives the
\* camera; device callbacks, timers and network replies arrive; every
\* outcome signal is recorded.  File I/O on the cache succeeds here.
Next ==
    \/ \E present \in BOOLEAN, capOk \in BOOLEAN :
            captureAndRecognize(present, capOk, TRUE, TRUE)
    \/ \E t \in brTimers, present \in BOOLEAN, capOk \in BOOLEAN :
            recallTimer(t, present, capOk, TRUE, TRUE)
    \/ \E t \in brTimers, capOk \in BOOLEAN : grabTimer(t, capOk, TRUE, TRUE)
    \/ \E r \in netPending, resp \in SomeResponses :
            onRecognizeReplyFinished(r, resp, TRUE, TRUE)
    \/ \E present \in BOOLEAN : QmlBridge_startCamera(present)
    \/ QmlBridge_stopCamera
    \/ \E c \in devPending : onImageCaptured(c)
    \/ \E c \in devPending : onImageCaptureError(c)
    \/ \E t \in camTimers : captureTimeout(t)
    \/ \E active \in BOOLEAN, ready \in BOOLEAN : DeviceChange(active, ready)
    \/ Tick
    \/ /\ saveToFile_write
       /\ UNCHANGED pipeVars

Spec == Init /\ [][Next]_vars

\* The capture pipeline with the camera left to captureAndRecognize: QML
\* triggers attempts and calls neither startCamera nor stopCamera itself.
OrchNext ==
    \/ \E present \in BOOLEAN, capOk \in BOOLEAN :
            captureAndRecognize(present, capOk, TRUE, TRUE)
    \/ \E t \in brTimers, present \in BOOLEAN, capOk \in BOOLEAN :
            recallTimer(t, present, capOk, TRUE, TRUE)
    \/ \E t \in brTimers, capOk \in BOOLEAN : grabTimer(t, capOk, TRUE, TRUE)
    \/ \E r \in netPending, resp \in SomeResponses :
            onRecognizeReplyFinished(r, resp, TRUE, TRUE)
    \/ \E c \in devPending : onImageCaptured(c)
    \/ \E c \in devPending : onImageCaptureError(c)
    \/ \E t \in camTimers : captureTimeout(t)
    \/ \E active \in BOOLEAN, ready \in BOOLEAN : DeviceChange(active, ready)
    \/ Tick
    \/ /\ saveToFile_write
       /\ UNCHANGED pipeVars

SpecOrch == Init /\ [][OrchNext]_vars

\* The camera controller driven through the bridge's camera calls alone.
CameraNext ==
    \/ \E present \in BOOLEAN : QmlBridge_startCamera(present)
    \/ QmlBridge_stopCamera
    \/ \E capOk \in BOOLEAN : QmlBridge_captureImage(capOk)
    \/ \E c \in devPending : onImageCaptured(c)
    \/ \E c \in devPending : onImageCaptureError(c)
    \/ \E t \in camTimers : captureTimeout(t)
    \/ \E active \in BOOLEAN, ready \in BOOLEAN : DeviceChange(active, ready)
    \/ Tick

SpecCamera == Init /\ [][CameraNext]_vars

\* The recognition client driven with frames from QML (no camera): every
\* kind of image, every kind of reply, and a cache file that may fail to
\* open for writing.
RecogNext ==
    \/ \E img \in ImageKinds \ {"invalid"}, wrOk \in BOOLEAN :
            captureAndRecognizeFromQML(img, TRUE, wrOk)
    \/ \E img \in ImageKinds, wrOk \in BOOLEAN :
            recognizeFace(img, TRUE, wrOk)
    \/ \E r \in netPending, resp \in Responses, wrOk \in BOOLEAN :
            onRecognizeReplyFinished(r, resp, TRUE, wrOk)
    \/ /\ saveToFile_write
       /\ UNCHANGED pipeVars

SpecRecog == Init /\ [][RecogNext]_vars

\* The cache driven directly through its API, with crashes.
SpecCache == Init /\ [][CacheNext]_vars

\* The log cache with its read-only calls: the mutating calls fill it (their
\* file I/O succeeds), the queries may fail to open the file.
QueryNext ==
    \/ /\ now < MaxEvents
       /\ \E e \in LogInputs : cacheLog(e, TRUE, TRUE)
       /\ UNCHANGED pipeVars
    \/ /\ \E logId \in Ids \cup {""} : markLogSynced(logId, TRUE, TRUE)
       /\ UNCHANGED pipeVars
    \/ /\ clearSyncedLogs(TRUE, TRUE)
       /\ UNCHANGED pipeVars
    \/ /\ saveToFile_write
       /\ UNCHANGED pipeVars
    \/ /\ \E rdOk \in BOOLEAN : getUnsyncedLogs_call(rdOk)
       /\ UNCHANGED pipeVars
    \/ /\ \E rdOk \in BOOLEAN : hasUnsyncedLogs_call(rdOk)
       /\ UNCHANGED pipeVars
    \/ /\ \E rdOk \in BOOLEAN : getUnsyncedLogsCount_call(rdOk)
       /\ UNCHANGED pipeVars
    \/ /\ syncCachedLogs
       /\ UNCHANGED pipeVars

SpecQuery == Init /\ [][QueryNext]_vars

\* The roster cache driven through its API, with crashes.
RosterNext ==
    \/ /\ \E users \in Rosters, wrOk \in BOOLEAN : cacheUsers(users, wrOk)
       /\ UNCHANGED pipeVars
    \/ /\ clearUserCache
       /\ UNCHANGED pipeVars
    \/ /\ saveToFile_write
       /\ UNCHANGED pipeVars
    \/ /\ Crash
       /\ UNCHANGED pipeVars

SpecRoster == Init /\ [][RosterNext]_vars

\* The whole log cache API without I/O failures: the calls of QueryNext and
\* clearAllCache.
PersistNext ==
    \/ QueryNext
    \/ /\ clearAllCache
       /\ UNCHANGED pipeVars

SpecPersist == Init /\ [][PersistNext]_vars

\* The recognition client's health probe and registration: requests are
\* sent and their replies finish in any order.
ServiceNext ==
    \/ testServerConnection
    \/ \E r \in netPending, resp \in ServiceReplies : onConnectionTestReplyFinished(r, resp)
    \/ \E img \in ImageKinds, name \in Names : registerFaceWithServer(img, name)
    \/ \E r \in netPending, resp \in ServiceReplies : onRegisterReplyFinished(r, resp)

SpecService == Init /\ [][ServiceNext]_vars

\* Every reply finishes: QNetworkAccessManager emits finished() for each
\* reply it handed out, with or without an error.
SpecServiceFair ==
    /\ SpecService
    /\ WF_vars(\E r \in netPending, resp \in ServiceReplies :
                    onConnectionTestReplyFinished(r, resp))
    /\ WF_vars(\E r \in netPending, resp \in ServiceReplies :
                    onRegisterReplyFinished(r, resp))

\* Recognition attempts on frames handed over by QML: each frame is null or
\* an image, the replies finish in any order, the cache file may fail to
\* open for writing.
AttemptNext ==
    \/ \E img \in ImageKinds \ {"invalid"}, wrOk \in BOOLEAN :
            captureAndRecognizeFromQML(img, TRUE, wrOk)
    \/ \E r \in netPending, resp \in Responses, wrOk \in BOOLEAN :
            onRecognizeReplyFinished(r, resp, TRUE, wrOk)
    \/ /\ saveToFile_write
       /\ UNCHANGED pipeVars

SpecAttempt == Init /\ [][AttemptNext]_vars

\* Every reply finishes (QNetworkAccessManager emits finished() for each
\* reply it handed out), and a handler that is inside saveToFile returns.
SpecAttemptFair ==
    /\ SpecAttempt
    /\ WF_vars(\E r \in netPending, resp \in Responses, wrOk \in BOOLEAN :
                    onRecognizeReplyFinished(r, resp, TRUE, wrOk))
    /\ WF_vars(saveToFile_write /\ UNCHANGED pipeVars)

\* The two caches side by side, with failing writes and crashes.  What the
\* events and the user lists hold plays no part in which file a call
\* touches: the log calls get events of one shape, the roster calls the
\* lists of at most one user.
PlainLogs == {e \in LogInputs : e.id = "a" /\ e.success /\ ~e.synced}
ShortRosters == {users \in Rosters : Len(users) <= 1}
StoreNext ==
    \/ /\ now < MaxEvents
       /\ \E e \in PlainLogs, wrOk \in BOOLEAN : cacheLog(e, TRUE, wrOk)
       /\ UNCHANGED pipeVars
    \/ /\ \E logId \in Ids, wrOk \in BOOLEAN : markLogSynced(logId, TRUE, wrOk)
       /\ UNCHANGED pipeVars
    \/ /\ \E wrOk \in BOOLEAN : clearSyncedLogs(TRUE, wrOk)
       /\ UNCHANGED pipeVars
    \/ /\ \E users \in ShortRosters, wrOk \in BOOLEAN : cacheUsers(users, wrOk)
       /\ UNCHANGED pipeVars
    \/ /\ clearUserCache
       /\ UNCHANGED pipeVars
    \/ /\ saveToFile_write
       /\ UNCHANGED pipeVars
    \/ /\ Crash
       /\ UNCHANGED pipeVars

SpecStore == Init /\ [][StoreNext]_vars

\* The bridge's roster view and settings: the settings screen sets the
\* server URL and the device id, the roster is fetched and its replies
\* finish in any order, QML calls refreshData, the process is restarted.
DataNext ==
    \/ \E url \in Urls : QmlBridge_setServerUrl(url)
    \/ \E deviceId \in DeviceIds : QmlBridge_setDeviceId(deviceId)
    \/ loadUsersFromBackend
    \/ \E r \in netPending, resp \in UsersReplies : onUsersReplyFinished(r, resp)
    \/ \E dies \in BOOLEAN : refreshData(dies)
    \/ Restart

SpecData == Init /\ [][DataNext]_vars

\* The recognition history driven by the screens that report outcomes.
HistoryNext ==
    \/ \E userName \in UserNames, success \in BOOLEAN :
            addRecognitionEvent(userName, success)
    \/ \E userName \in UserNames, success \in BOOLEAN, imageData \in {"", "jpeg"} :
            addRecognitionEventWithImage(userName, success, imageData)
    \/ clearRecognitionHistory

SpecHistory == Init /\ [][HistoryNext]_vars

\* ------------------------------------------------------- claims on the cache
\* What a restart reads back from the log cache.
StoredLogs == getCachedLogs(logsFile, TRUE)

\* The list of the last complete snapshot: during a write, the one the write
\* replaces.
StoredBefore ==
    IF cachePc = "opened" /\ ~WritesUsers(cacheBuf.op)
    THEN getCachedLogs(cacheBuf.prev, TRUE) ELSE StoredLogs

\* C1: durability of recordEvent.  After an unclean shutdown and restart,
\* whenever it happens, every event whose cacheLog returned after writing,
\* and that was not marked synced since, is among getUnsyncedLogs().
C1_Durability ==
    lastCall = Restarted => acked \subseteq Stamps(getUnsyncedLogs(logsFile, TRUE))

\* C2: atomic snapshot replace.  At every point of a mutating cache call the
\* file on disk is the complete previous snapshot or the complete new one.
C2_AtomicReplace ==
    cachePc = "opened" => logsFile \in {cacheBuf.prev, ToJson(cacheBuf.data)}

\* A failure the caller of a cache call can see: cacheLog returns void and
\* throws nothing, which leaves a signal other than the two notifications of
\* success.
CallerSeesFailure(call) ==
    \E s \in call.emitted : s \notin {"unsyncedLogsChanged", "cacheUpdated"}

\* C3: no silent loss.  When cacheLog(e) has returned, e is in the cache or
\* the caller was shown a failure.
C3_NoSilentLoss ==
    lastCall.op = "cacheLog" =>
        \/ lastCall.stamp \in Stamps(StoredLogs)
        \/ CallerSeesFailure(lastCall)

\* C4: sync-state monotonicity.  No step of cacheLog, markLogSynced or
\* clearSyncedLogs (nor a crash) turns a stored event that is synced into an
\* unsynced one: an event synced in the last snapshot is synced wherever it
\* is still stored.
C4_SyncMonotone ==
    [][\A i \in 1..Len(StoredBefore) : \A j \in 1..Len(StoredLogs') :
          (StoredBefore[i].cached_at = StoredLogs'[j].cached_at /\ StoredBefore[i].synced)
              => StoredLogs'[j].synced]_vars

\* A cacheLog has written its event into a cache that holds a synced event.
C4_Witness ==
    /\ lastCall.op = "cacheLog"
    /\ lastCall.saved
    /\ SyncedStamps(StoredLogs) # {}
    /\ lastCall.stamp \in Stamps(StoredLogs)

\* ---------------------------------------------------- claims on the camera
\* C5: single capture in flight.  At most one capture issued by captureImage
\* is outstanding (issued, and answered neither by onImageCaptured nor by
\* onImageCaptureError).
C5_SingleCaptureInFlight == Cardinality(devPending) <= 1

\* C7: stop() reaches Idle.  Whenever the camera is not running (at start,
\* and after stopCamera() from any state), no camera object is left and no
\* capture is marked in progress.
C7_StopReachesIdle ==
    ~m_cameraRunning => (m_imageCapture = Null /\ ~m_captureInProgress)

\* -------------------------------------------------- claims on the pipeline
\* C6: bounded readiness wait.  A captureAndRecognize request that found
\* the device not ready three times has failed: it is not waiting to poll a
\* fourth time.
C6_BoundedReadinessWait ==
    \A t \in brTimers : t.kind = "recall" => t.polls < 3

\* The signals emitted for attempt r, and the stored events recorded for it.
SignalsOf(r) == {i \in 1..Len(sigLog) : sigLog[i].req = r}
EventsOf(r) == {i \in 1..Len(StoredLogs) : StoredLogs[i].id = ToString(r)}
IsMatched(r) == \E i \in SignalsOf(r) : sigLog[i].cause = "Matched"

\* C8: every attempt is logged.  Once an attempt has reached an outcome and
\* its handlers have returned, the cache holds exactly one event for it,
\* with success = true iff the outcome is Matched.
C8_EveryAttemptLogged ==
    cachePc = "idle" =>
        \A r \in 1..nextReq :
            SignalsOf(r) # {} =>
                /\ Cardinality(EventsOf(r)) = 1
                /\ \A i \in EventsOf(r) : StoredLogs[i].success = IsMatched(r)

\* What the receiver of an outcome signal is told.
Report(s) == <<s.sig, s.userId, s.userName>>
ReplyClasses == {"NetworkUnavailable", "ProtocolError", "NotMatched", "Matched"}

\* C9: result classification.  Replies of different result classes
\* (transport failure, HTTP error or malformed body, matched=false,
\* matched=true) are reported differently.
C9_ResultClassification ==
    \A i \in 1..Len(sigLog) : \A j \in 1..Len(sigLog) :
        ( /\ sigLog[i].cause \in ReplyClasses
          /\ sigLog[j].cause \in ReplyClasses
          /\ sigLog[i].cause # sigLog[j].cause )
        => Report(sigLog[i]) # Report(sigLog[j])

\* C10: Matched implies identity.  Every faceRecognized signal carries a
\* non-empty userId and a non-empty userName.
C10_MatchedImpliesIdentity ==
    \A i \in 1..Len(sigLog) :
        sigLog[i].sig = "faceRecognized" =>
            (sigLog[i].userId # "" /\ sigLog[i].userName # "")

\* The requests posted by this step on behalf of captureAndRecognize, and the
\* events this step made part of the stored log.
PostedNow == {r \in netPending' \ netPending : r.via = "processRecognition"}
WrittenNow ==
    {j \in 1..Len(StoredLogs') : StoredLogs'[j].cached_at \notin Stamps(StoredBefore)}
HasOutcome(id) ==
    /\ \E i \in 1..Len(sigLog) : ToString(sigLog[i].req) = id
    /\ \A r \in netPending : ToString(r.req) # id

InWriteOrder(logs) ==
    \A i \in 1..Len(logs) : \A j \in 1..Len(logs) :
        i < j => logs[i].cached_at < logs[j].cached_at

StoredUsers == getCachedUsers(usersFile, TRUE)

\* C13: roster round trip and wholesale replace.  Right after a call
\* cacheUsers(X) returned, whatever the users file held before,
\* getCachedUsers() returns exactly X.
C13_RosterRoundTrip ==
    (cachePc = "idle" /\ lastCall.op = "cacheUsers") => StoredUsers = lastCall.stamp

\* ------------------------------------------------ claims on the log queries
\* The positions of the stored events that are not synced, and the number
\* of them up to position i.
UnsyncedIdx(logs) == {i \in 1..Len(logs) : ~logs[i].synced}
Rank(logs, i) == Cardinality({j \in UnsyncedIdx(logs) : j <= i})
IsExactFilter(result, logs) ==
    /\ Len(result) = Cardinality(UnsyncedIdx(logs))
    /\ \A i \in UnsyncedIdx(logs) : result[Rank(logs, i)] = logs[i]

HasId(logs, logId) == \E i \in 1..Len(logs) : logs[i].id = logId

\* The step that ends a call of `op` by writing its list.
Completes(op) ==
    /\ cachePc = "opened"
    /\ cacheBuf.op = op
    /\ cachePc' = "idle"
    /\ lastCall' # Restarted

\* C15: markSynced on an absent id is a no-op.  When markLogSynced(id)
\* completes and no stored event carried that id, the stored list is what
\* it was before the call.
C15_MarkAbsentNoOp ==
    [][ (Completes("markLogSynced") /\ ~HasId(StoredBefore, cacheBuf.stamp))
            => StoredLogs' = StoredBefore ]_vars

\* C16: recordEvent appends as Pending.  When cacheLog(e) completes, the
\* stored list is the list stored before the call followed by one new
\* entry, which is not synced and carries the call's cached_at.
C16_AppendsAsPending ==
    [][ Completes("cacheLog") =>
            /\ Len(StoredLogs') = Len(StoredBefore) + 1
            /\ SubSeq(StoredLogs', 1, Len(StoredBefore)) = StoredBefore
            /\ ~StoredLogs'[Len(StoredLogs')].synced
            /\ StoredLogs'[Len(StoredLogs')].cached_at = cacheBuf.stamp ]_vars

\* ------------------------------------------------- claims on capture retry
\* The closure t of a captureAndRecognize run fires in this step.
Fires(t) == t \in brTimers /\ t.left = 0 /\ t \notin brTimers'
\* The run's recognize request is posted.
Submitted(req) == \E r \in netPending' \ netPending : r.req = req

\* C17: capture retry on warm-up.  A single captureAndRecognize() trigger
\* that found the device not ready on two polls and ready on the third, and
\* whose capture the device is still working on while staying ready, ends
\* its wait by submitting an image for recognition (not by failing).
C17_WarmUpRetry ==
    [][ \A t \in brTimers :
            ( /\ Fires(t)
              /\ t.kind = "grab"
              /\ t.polls = 2
              /\ nextReq = 1
              /\ m_cameraRunning /\ devActive /\ devReady
              /\ devPending # {} )
            => Submitted(t.req) ]_vars

\* The captureImage() calls a run has made when its closure t is about to
\* run: the grab closure is armed after the run's first call.
CaptureCalls(t) == IF t.kind = "grab" THEN 1 ELSE 0

\* C18: orchestrator capture retry bound.  A run that reports failure for
\* lack of an image has called captureImage() three times by then (the
\* first call and two retries).
C18_CaptureRetryBound ==
    [][ \A t \in brTimers :
            (Fires(t) /\ t.kind = "grab" /\ ~Submitted(t.req))
            => CaptureCalls(t) + 1 >= 3 ]_vars

\* -------------------------------------------------- claims on the sync flush
\* C19: flush idempotence.  A syncCachedLogs() call on a cache in which
\* every event is synced attempts nothing and reports
\* {attempted: 0, succeeded: 0, failed: 0}.
C19_FlushIdempotent ==
    (cachePc = "idle" /\ lastCall.op = "syncCachedLogs"
        /\ UnsyncedIdx(StoredLogs) = {})
    => /\ lastCall.attempted = 0
       /\ lastCall.result = [attempted |-> 0, succeeded |-> 0, failed |-> 0]

\* C20: flush continues past individual failures.  A syncCachedLogs() call
\* on a cache holding unsynced events attempts every one of them.
C20_FlushContinues ==
    (cachePc = "idle" /\ lastCall.op = "syncCachedLogs")
    => lastCall.attempted = Cardinality(UnsyncedIdx(StoredLogs))

\* ------------------------------------------- claims on keeping unsynced events
\* C21: unsynced events persist until resolved.  Whenever a cache call has
\* returned, every event that was stored unsynced before the call is still
\* stored unsynced, unless the call was a markLogSynced for that event's id.
C21_UnsyncedPersist ==
    [][ cachePc' = "idle" =>
            \A i \in UnsyncedIdx(StoredBefore) :
                \/ \E j \in UnsyncedIdx(StoredLogs') :
                        StoredLogs'[j].cached_at = StoredBefore[i].cached_at
                \/ /\ Completes("markLogSynced")
                   /\ idString(StoredBefore[i]) = cacheBuf.stamp ]_vars

\* ------------------------------------------------ claims on starting the camera
\* The camera part of this step is a startCamera() call that finds the
\* device present or not.
StartCalled(present) == \E ret \in BOOLEAN : startCamera(present, ret)

\* C22: start() is idempotent.  A startCamera() call made while the camera
\* is running returns true and emits no cameraStarted; the camera object,
\* the captures the device owes, the running flag and every other field of
\* the controller and of the device stay as they were.
C22_StartIdempotent ==
    [][ (m_cameraRunning /\ \E present \in BOOLEAN : StartCalled(present)) =>
            /\ camCall'.ret
            /\ "cameraStarted" \notin camCall'.emitted
            /\ m_cameraRunning'
            /\ m_imageCapture' = m_imageCapture
            /\ devPending' = devPending
            /\ UNCHANGED <<camObjs, devVars>> ]_vars

\* startCamera() returned from a call on a running camera that has a
\* capture outstanding.
C22_Witness ==
    /\ m_cameraRunning
    /\ camCall = Started(TRUE, {})
    /\ devPending # {}
    /\ m_captureInProgress

\* C23: start() without a device fails cleanly.  A startCamera() call made
\* while the camera is not running and no device is found returns false,
\* emits cameraError and leaves the controller not running without a camera
\* object; when the call came through QmlBridge::startCamera(), the
\* bridge's cameraAvailable is false afterwards.
C23_StartWithoutDevice ==
    [][ /\ (~m_cameraRunning /\ StartCalled(FALSE)) =>
                /\ ~camCall'.ret
                /\ "cameraError" \in camCall'.emitted
                /\ ~m_cameraRunning'
                /\ m_imageCapture' = Null
                /\ devPending' = {}
        /\ (~m_cameraRunning /\ QmlBridge_startCamera(FALSE)) =>
                ~br_cameraAvailable' ]_vars

\* A start without a device failed after the camera had run and been
\* stopped.
C23_Witness ==
    /\ camCall = Started(FALSE, {"cameraError"})
    /\ m_cameraAvailable
    /\ ~m_cameraRunning
    /\ nextCap > 0

\* ------------------------------------------------ claims on the orchestrator
\* The recognize requests posted for captureAndRecognize runs and not yet
\* answered.
Outstanding == {r \in netPending : r.via = "processRecognition"}

\* C24: the orchestrator does not double-submit.  At most one recognize
\* request issued for a captureAndRecognize() run is outstanding at any
\* time.
C24_NoDoubleSubmit == Cardinality(Outstanding) <= 1

\* -------------------------------------------- claims on the recognition client
\* The reports emitted for request req, and whether its reply is awaited.
ReportsOf(req) == {i \in 1..Len(sigLog) : sigLog[i].req = req}
IsPending(req) == \E r \in netPending : r.req = req

\* Each request sent is either awaited and unreported, or finished and
\* reported exactly once; the report of a probe tells success exactly for a
\* 2xx reply whose body is a JSON document.
ProbeReportedOnce ==
    \A req \in 1..nextReq :
        IF IsPending(req) THEN ReportsOf(req) = {}
        ELSE /\ Cardinality(ReportsOf(req)) = 1
             /\ \A i \in ReportsOf(req) :
                    sigLog[i].sig = "serverConnectionTested" =>
                        (sigLog[i].success <=> (sigLog[i].cause = "json"))

C26_RegistrationResult ==
    \A req \in 1..nextReq :
        ~IsPending(req) =>
            /\ Cardinality(ReportsOf(req)) = 1
            /\ \A i \in ReportsOf(req) :
                    sigLog[i].cause = "InvalidResponse" =>
                        sigLog[i].sig = "faceRegistrationFailed"

\* The well-formed replies with matched=true.
MatchedResponses == {resp \in Responses : resp.kind = "json" /\ resp.matched}

\* The signal s has the argument `key`, and it carries the value v.
Carries(s, key, v) == key \in DOMAIN s /\ s[key] = v

\* C27: the Matched result carries the server's values.  When the reply of
\* a recognize request finishes with a well-formed matched=true response,
\* the signal delivered for it is faceRecognized and carries the response's
\* user_id as userId, its name as userName, and its distance and threshold.
C27_MatchedCarriesValues ==
    [][ \A resp \in MatchedResponses :
            (\E r \in netPending, wrOk \in BOOLEAN :
                    onRecognizeReplyFinished(r, resp, TRUE, wrOk))
            => LET s == sigLog'[Len(sigLog')]
               IN  /\ s.sig = "faceRecognized"
                   /\ Carries(s, "userId", resp.user_id)
                   /\ Carries(s, "userName", resp.name)
                   /\ Carries(s, "distance", resp.distance)
                   /\ Carries(s, "threshold", resp.threshold) ]_vars

\* ---------------------------------------------- claims on the recognition history
\* C28: bounded history with FIFO eviction.  The history never holds more
\* than 50 events and lists them newest first; an addition puts the new
\* event first and keeps the events that were there in their order, dropping
\* only the oldest one, and only when the history was full.
C28_BoundedHistory ==
    /\ [](/\ Len(m_recognitionHistory) <= 50
          /\ \A i \in 1..Len(m_recognitionHistory) : \A j \in 1..Len(m_recognitionHistory) :
                i < j => m_recognitionHistory[i].seq > m_recognitionHistory[j].seq)
    /\ [][ nAdded' # nAdded =>
            /\ m_recognitionHistory'[1].seq = nAdded'
            /\ Len(m_recognitionHistory') =
                    IF Len(m_recognitionHistory) < 50
                    THEN Len(m_recognitionHistory) + 1 ELSE 50
            /\ \A i \in 2..Len(m_recognitionHistory') :
                    m_recognitionHistory'[i] = m_recognitionHistory[i - 1] ]_vars

\* The history is full and two events have been evicted.
C28_Witness ==
    /\ Len(m_recognitionHistory) = 50
    /\ m_recognitionHistory[50].seq = 3

\* ------------------------------------------------ claims on captured images
\* C29: image freshness.  An image captureImage() returns to an attempt, and
\* which the attempt submits, is of the capture that the attempt's own
\* captureImage() call issued: the submission is made by the closure the
\* attempt armed when it issued that capture.
C29_ImageFreshness ==
    [][ \A r \in PostedNow :
            \E t \in brTimers \ brTimers' :
                /\ t.kind = "grab"
                /\ t.req = r.req
                /\ t.cap = m_lastCapturedImage ]_vars

\* C30: the timeout belongs to its capture.  The in-progress mark of the
\* capture issued last is cleared only by the device answering that capture
\* (image or error) or by the timeout armed when it was issued.
C30_TimeoutOwnCapture ==
    [][ (m_captureInProgress /\ ~m_captureInProgress') =>
            \/ devPending \ devPending' = {nextCap}
            \/ \E t \in camTimers \ camTimers' : t.cap = nextCap ]_vars

\* ------------------------------------------------ claims on resolving events
\* The stored events that are unsynced and whose id string is logId.
UnsyncedWithId(logs, logId) == {i \in UnsyncedIdx(logs) : idString(logs[i]) = logId}

\* C31: markSynced resolves the event.  When markLogSynced(id) completes on a
\* cache that held at least one unsynced event with that id, no event with
\* that id is left among the unsynced ones, and every event with another id
\* is stored as before, at its place.
C31_MarkResolves ==
    [][ (Completes("markLogSynced") /\ UnsyncedWithId(StoredBefore, cacheBuf.stamp) # {})
            => /\ UnsyncedWithId(StoredLogs', cacheBuf.stamp) = {}
               /\ Len(StoredLogs') = Len(StoredBefore)
               /\ \A i \in 1..Len(StoredBefore) :
                     idString(StoredBefore[i]) # cacheBuf.stamp
                         => StoredLogs'[i] = StoredBefore[i] ]_vars

\* ------------------------------------------- claims on outcomes per attempt
\* The attempts started so far, each a call of processRecognition.
Attempts == 1..nextReq

\* Every attempt has no outcome signal while its request is outstanding and
\* exactly one once it is not; so signals and outstanding requests together
\* are as many as the attempts.
OneOutcomeEach ==
    /\ \A req \in Attempts :
          Cardinality(SignalsOf(req)) = (IF IsPending(req) THEN 0 ELSE 1)
    /\ \A i \in 1..Len(sigLog) :
          sigLog[i].req \in Attempts
          /\ sigLog[i].sig \in {"faceRecognized", "faceRecognitionFailed"}
    /\ Len(sigLog) + Cardinality(netPending) = nextReq

\* A finished reply gives one signal, for the attempt the reply belongs to.
OnePerReply ==
    \A r \in netPending \ netPending' :
        /\ Len(sigLog') = Len(sigLog) + 1
        /\ sigLog'[Len(sigLog')].req = r.req

EmittedNow == {i \in 1..Len(sigLog') : i > Len(sigLog)}

\* C33: no match signal before the server answers.  faceRecognized is
\* emitted only in the step in which a reply of that attempt's request
\* finishes, and only for a reply with matched=true.
C33_NoMatchBeforeAnswer ==
    [][ \A i \in EmittedNow :
            sigLog'[i].sig = "faceRecognized"
                => /\ \E r \in netPending \ netPending' : r.req = sigLog'[i].req
                   /\ sigLog'[i].cause = "Matched" ]_vars

\* ------------------------------------------------- claims on the roster view
\* The reply of a roster fetch that ended in a network or HTTP error.
FetchErrors == {resp \in UsersReplies : ~NoError(resp)}

\* C34: a failed roster fetch keeps the roster.  When the reply of
\* getUsersFromServer finishes with a network or HTTP error, the list behind
\* the users property is the one held before.
C34_FailedFetchKeepsRoster ==
    [][ (\E r \in netPending, resp \in FetchErrors : onUsersReplyFinished(r, resp))
            => m_users' = m_users ]_vars

\* ------------------------------------------ claims on reads, clears, frames
\* The calls on the log cache that read the file and write it back.
LogRewrites == {"cacheLog", "markLogSynced", "clearSyncedLogs"}

\* The stored events a call of `op` may drop: the synced ones for
\* clearSyncedLogs, none for the others.
MayDrop(op, log) == op = "clearSyncedLogs" /\ log.synced

\* C35: a failed read never destroys stored events.  When cacheLog,
\* markLogSynced or clearSyncedLogs has written its list, every event that
\* was stored before the call (but the synced ones clearSyncedLogs removes)
\* is still stored, whatever the call's read gave.
C35_FailedReadKeepsEvents ==
    [][ \A op \in LogRewrites :
            Completes(op) =>
                \A i \in 1..Len(StoredBefore) :
                    \/ MayDrop(op, StoredBefore[i])
                    \/ StoredBefore[i].cached_at \in Stamps(StoredLogs') ]_vars

\* C36: clearSyncedLogs removes only synced events.  When clearSyncedLogs has
\* written its list, no stored event is synced and getUnsyncedLogs() gives
\* the same events in the same order as before the call.
C36_ClearKeepsUnsynced ==
    [][ Completes("clearSyncedLogs") =>
            /\ \A i \in 1..Len(StoredLogs') : ~StoredLogs'[i].synced
            /\ getUnsyncedLogs(logsFile', TRUE) = SelectSeq(StoredBefore, IsUnsynced) ]_vars

\* A step of a roster call: cacheUsers up to its open, its write, or
\* clearUserCache.
RosterStep ==
    \/ \E users \in Rosters, wrOk \in BOOLEAN : cacheUsers(users, wrOk)
    \/ saveToFile_write /\ cacheBuf.op = "cacheUsers"
    \/ clearUserCache

\* A step of a log call: cacheLog, markLogSynced or clearSyncedLogs up to
\* its open, or its write.
LogStep ==
    \/ \E e \in LogInputs, rdOk \in BOOLEAN, wrOk \in BOOLEAN : cacheLog(e, rdOk, wrOk)
    \/ \E logId \in Ids \cup {""}, rdOk \in BOOLEAN, wrOk \in BOOLEAN :
            markLogSynced(logId, rdOk, wrOk)
    \/ \E rdOk \in BOOLEAN, wrOk \in BOOLEAN : clearSyncedLogs(rdOk, wrOk)
    \/ saveToFile_write /\ cacheBuf.op \in LogRewrites

\* C37: roster cache and event log are independent.  No step of cacheUsers
\* or clearUserCache changes the stored events, and no step of cacheLog,
\* markLogSynced or clearSyncedLogs changes the cached roster.
C37_Independent ==
    [][ /\ RosterStep => logsFile' = logsFile
        /\ LogStep => usersFile' = usersFile ]_vars

\* Both caches are filled: a roster was written next to stored events of
\* which one is synced, and the last call was a log call that wrote.
C37_Witness ==
    /\ StoredUsers # <<>>
    /\ SyncedStamps(StoredLogs) # {}
    /\ Len(StoredLogs) >= 2
    /\ lastCall.op \in LogRewrites
    /\ lastCall.saved

\* ------------------------------------------- claims on the bridge's own state
\* C38: cameraAvailable mirrors the camera.  After every bridge operation
\* (startCamera, stopCamera, captureAndRecognize and its closures) the
\* bridge's cameraAvailable is true exactly when the CameraManager is
\* running.
C38_AvailableMirrorsRunning == br_cameraAvailable = m_cameraRunning

\* C39: the reported server URL and device id are the ones in use.  At all
\* times, a restart with saved settings included, getServerUrl() is the URL
\* the service sends its requests to and getDeviceId() is the device id it
\* puts into them.
C39_ReportedIsUsed ==
    /\ getServerUrl = m_serverUrl
    /\ getDeviceId = m_deviceId

\* C40: every exposed bridge operation is safe in every reachable state.  No
\* call of QmlBridge, refreshData() included, calls into a collaborator that
\* was never constructed.
C40_NoNullCollaborator ==
    "uses" \in DOMAIN brCall => brCall.uses \subseteq Constructed

=============================================================================
